---- MODULE Spec2Model ----
(***************************************************************************)
(* Model of src/src/moves.cpp: the three Metropolis moves of outbreaker2   *)
(* (cpp_move_mu, cpp_move_t_inf, cpp_move_alpha).                          *)
(*                                                                         *)
(* One behaviour is one external call of one move.  Init is the state on   *)
(* entry (the arguments, and the oracle's value on the input snapshot);    *)
(* cpp_move_mu is one step, the two sweeps take one step per loop          *)
(* iteration and one for "return new_param".                               *)
(*                                                                         *)
(* Log-likelihoods are extended reals (finite, -Inf, NaN).  Probabilities  *)
(* (p_accept and the uniform draws) are kept by their natural logarithm,   *)
(* so exp(new_loglike - old_loglike) is represented by the difference      *)
(* itself and "p_accept < unif_rand()" by the IEEE comparison of the logs. *)
(***************************************************************************)
EXTENDS Integers, Sequences, FiniteSets, TLC

\* ---------------------------------------------------------------- bounds
MaxN == 3        \* largest number of cases data["N"]
MaxT == 2        \* input infection times are drawn from 0..MaxT
MaxLL == 1       \* finite log-likelihoods are drawn from 0..MaxLL
MinLogU == 2     \* the uniform draws are exp(-MinLogU) and 1

\* ------------------------------------------------- extended real numbers
Fin(n) == [k |-> "fin", v |-> n]
NaN == [k |-> "nan", v |-> 0]
NegInf == [k |-> "ninf", v |-> 0]
PosInf == [k |-> "pinf", v |-> 0]

\* values the likelihood oracle can return
LLValues == {NegInf, NaN} \cup {Fin(n) : n \in 0..MaxLL}

\* values the oracle can return for the term of one case
CaseLLValues == {NegInf, Fin(0)}

\* IEEE subtraction a - b
Sub(a, b) ==
  IF a.k = "nan" \/ b.k = "nan" THEN NaN
  ELSE IF a.k = "fin" /\ b.k = "fin" THEN Fin(a.v - b.v)
  ELSE IF a.k = b.k THEN NaN
  ELSE IF a.k = "pinf" \/ b.k = "ninf" THEN PosInf
  ELSE NegInf

\* IEEE comparison a < b (false as soon as one side is NaN)
Less(a, b) ==
  /\ a.k # "nan" /\ b.k # "nan"
  /\ \/ a.k = "ninf" /\ b.k # "ninf"
     \/ a.k # "pinf" /\ b.k = "pinf"
     \/ a.k = "fin" /\ b.k = "fin" /\ a.v < b.v

\* IEEE comparison a <= b
Leq(a, b) ==
  /\ a.k # "nan" /\ b.k # "nan"
  /\ (Less(a, b) \/ a = b)

\* unif_rand(): the draws, by their logarithm (exp(-MinLogU) and 1)
UnifDraws == {Fin(0 - MinLogU), Fin(0)}

\* ------------------------------------------------------------ the state
VARIABLES
  call,        \* the exported function that was called
  pc,          \* "run" inside the call, "done" after return, "error" after a stop
  sd_mu,       \* config["sd.mu"]
  param,       \* the caller's snapshot: [mu, t_inf, alpha]
  ll_param,    \* the oracle's value on param (what old_loglike is set to)
  new_param,   \* the clone: [mu, t_inf_ref, alpha]; t_inf_ref names the vector
               \* the entry "t.inf" of new_param refers to
  new_t_inf,   \* the vector behind the handle new_t_inf
  i,           \* the loop index, on the internal scale 0..N-1
  ll_work,     \* the oracle's value on the snapshot new_param holds
  hist,        \* the proposals made so far, in order
  sampler_calls, \* the calls of cpp_pick_possible_ancestor made so far
  param_in,    \* the values param held when the call was made
  evals,       \* the calls of the likelihood oracle made so far, in order
  draws        \* the random draws made so far, in order

vars == <<call, pc, sd_mu, param, ll_param, new_param, new_t_inf, i, ll_work, hist,
          sampler_calls, param_in, evals, draws>>

NA_INTEGER == 0 - 1

N == Len(param.t_inf)
Cases == 1..N

\* the snapshot the call returns (the entry "t.inf" is dereferenced)
Returned ==
  [mu |-> new_param.mu,
   t_inf |-> IF new_param.t_inf_ref = "t_inf" THEN param.t_inf ELSE new_t_inf,
   alpha |-> new_param.alpha]


\* ------------------------------------------------------- the collaborators
\* R::rnorm(0, sd_mu), in units of the proposal's standard deviation: exactly
\* 0 when sd_mu = 0, otherwise a nonzero step
rnorm(sd) == IF sd = 0 THEN {0} ELSE {0 - sd, sd}

\* the cases whose infection time strictly precedes ref_time, on the scale 1..N
are_possible_ancestors(t_inf, ref_time) ==
  {j \in DOMAIN t_inf : t_inf[j] < ref_time}

\* cpp_pick_possible_ancestor(t_inf, case_id): the pools the sampler can draw
\* from.  case_id is on the scale 1..N; the infection time of an identifier
\* outside 1..N is an out-of-range read, any value
cpp_pick_possible_ancestor(t_inf, case_id) ==
  IF case_id \in DOMAIN t_inf
  THEN {are_possible_ancestors(t_inf, t_inf[case_id])}
  ELSE {are_possible_ancestors(t_inf, g) : g \in 0..(MaxT + 1)}

\* ------------------------------------------------------ pieces of the moves
\* the ratio with its operands exchanged
p_accept_swapped(new_loglike, old_loglike) == Sub(old_loglike, new_loglike)

\* lines 55, 120, 181: p_accept = exp(new_loglike - old_loglike), by its log
p_accept(new_loglike, old_loglike) == Sub(new_loglike, old_loglike)

\* the test with its sides exchanged
rejects_flipped(p, u) == Less(u, p)

\* lines 59, 124, 189: if (p_accept < unif_rand())
rejects(p, u) == Less(p, u)

\* the step assigned instead of added
proposed_t_inf_assigned(v, above_half) == IF above_half THEN 1 ELSE 0 - 1

\* line 111: new_t_inf[i] += unif_rand() > 0.5 ? 1 : -1
proposed_t_inf(v, above_half) == v + (IF above_half THEN 1 ELSE 0 - 1)

\* lines 125-126: new_t_inf[i] = t_inf[i]; new_param["t.inf"] = t_inf
restored_t_inf_ref == "t_inf"

\* the test without its first operand
eligible_without_na(alpha, t_inf, k) ==
  Cardinality({j \in DOMAIN t_inf : t_inf[j] < t_inf[k + 1]}) > 0

\* line 166: alpha[i] != NA_INTEGER && sum(t_inf < t_inf[i]) > 0
eligible(alpha, t_inf, k) ==
  /\ alpha[k + 1] # NA_INTEGER
  /\ Cardinality({j \in DOMAIN t_inf : t_inf[j] < t_inf[k + 1]}) > 0

\* line 173: the second argument of cpp_pick_possible_ancestor(t_inf, i)
sampler_argument(k) == k

\* lines 44, 108, 169: old_loglike is computed on param, the caller's
\* snapshot, and not on new_param, the snapshot the sweep works on
old_loglike_snapshot(of_param, of_new_param) == of_param

\* lines 170, 178: the case cpp_ll_all is restricted to, i+1
likelihood_argument(k) == k + 1

\* lines 47 and 59, 111 and 124, 173 and 189: the draws of one proposal, the
\* proposal draw (R::rnorm, unif_rand, the sampler) and then unif_rand for
\* the acceptance
draws_of_proposal(c) ==
  <<[kind |-> "proposal", case |-> c], [kind |-> "acceptance", case |-> c]>>

\* the test on the ratio of the case's own term
tested_ratio_of_case(p, p2) == p2

\* line 189: the ratio the test is made on, p_accept and not p_accept2
tested_ratio(p, p2) == p

\* new_param made without clone
aliased_without_clone == TRUE

\* lines 35, 93, 151: new_param = clone(param) is a deep copy, its vectors are
\* not those of param
aliased == FALSE

\* what the caller's snapshot p holds after field f of new_param was set to v
caller_param(p, f, v) == IF aliased THEN [p EXCEPT ![f] = v] ELSE p

\* one record of evals: the oracle called for case c (0: mu) on a snapshot
\* whose moved parameter is `on`, restricted to one case (0: R_NilValue);
\* `work` is the moved parameter of new_param when the case was reached
Evaluation(c, which, on, work, restricted) ==
  [case |-> c, which |-> which, on |-> on, work |-> work, restricted |-> restricted]

\* one record of hist: the proposal made for a case (case 0: mu)
Proposal(c, oldv, prop, old, new, u, acc) ==
  [case |-> c, from |-> oldv, prop |-> prop, old |-> old, new |-> new,
   u |-> u, acc |-> acc]

\* --------------------------------------------------------------- the calls
MuValues == 0..1
TInfValues(n) == [1..n -> 0..MaxT]
AlphaValues(n) == [1..n -> {NA_INTEGER} \cup 1..n]

\* sample values for the fields the called move neither reads nor writes:
\* simultaneous and successive infections, no ancestries and a chain
SampleTInf(n) == {[j \in 1..n |-> 0], [j \in 1..n |-> IF j < MaxT THEN j ELSE MaxT]}
SampleAlpha(n) == {[j \in 1..n |-> NA_INTEGER],
                   [j \in 1..n |-> IF j = 1 THEN NA_INTEGER ELSE j - 1]}

\* the snapshots a call of move c is started on, for n cases
Snapshots(c, n) ==
  [mu : IF c = "mu" THEN MuValues ELSE {1},
   t_inf : IF c = "mu" THEN SampleTInf(n) ELSE TInfValues(n),
   alpha : IF c = "alpha" THEN AlphaValues(n) ELSE SampleAlpha(n)]

Init ==
  /\ call \in {"mu", "t_inf", "alpha"}
  /\ pc = "run"
  /\ sd_mu \in (IF call = "mu" THEN 0..1 ELSE {0})
  /\ \E n \in 1..MaxN : param \in Snapshots(call, n)
  /\ ll_param \in LLValues
  /\ new_param = [mu |-> param.mu, t_inf_ref |-> "new_t_inf", alpha |-> param.alpha]
  /\ new_t_inf = param.t_inf
  /\ i = 0
  /\ ll_work = ll_param
  /\ hist = << >>
  /\ sampler_calls = << >>
  /\ param_in = param
  /\ evals = << >>
  /\ draws = << >>

\* lines 34-65
cpp_move_mu ==
  /\ call = "mu" /\ pc = "run"
  /\ \E eps \in rnorm(sd_mu), u \in UnifDraws, ll \in LLValues :
       LET old_loglike == ll_param
           new_mu == param.mu + eps
           new_loglike == IF eps = 0 THEN ll_param ELSE ll
           p == p_accept(new_loglike, old_loglike)
       IN /\ (eps = 0 => ll = ll_param)
          /\ IF rejects(p, u)
             THEN /\ new_param' = [new_param EXCEPT !.mu = param.mu]
                  /\ ll_work' = ll_param
             ELSE /\ new_param' = [new_param EXCEPT !.mu = new_mu]
                  /\ ll_work' = new_loglike
          /\ hist' = Append(hist, Proposal(0, param.mu, new_mu, old_loglike,
                                           new_loglike, u, ~rejects(p, u)))
          /\ evals' = evals \o
               <<Evaluation(0, "old", old_loglike_snapshot(param.mu, new_param.mu),
                            new_param.mu, 0),
                 Evaluation(0, "new", new_mu, new_param.mu, 0)>>
  /\ param' = caller_param(param, "mu", new_param'.mu)
  /\ draws' = draws \o draws_of_proposal(0)
  /\ pc' = "done"
  /\ UNCHANGED <<call, sd_mu, ll_param, new_t_inf, i, sampler_calls, param_in>>

\* lines 104-128, one iteration of the loop
cpp_move_t_inf ==
  /\ call = "t_inf" /\ pc = "run" /\ i < N
  /\ \E above_half \in BOOLEAN, u \in UnifDraws, new_loglike \in LLValues :
       LET old_loglike == ll_param
           v == proposed_t_inf(new_t_inf[i + 1], above_half)
           p == p_accept(new_loglike, old_loglike)
       IN /\ IF rejects(p, u)
             THEN /\ new_t_inf' = [new_t_inf EXCEPT ![i + 1] = param.t_inf[i + 1]]
                  /\ new_param' = [new_param EXCEPT !.t_inf_ref = restored_t_inf_ref]
                  /\ ll_work' = ll_param
             ELSE /\ new_t_inf' = [new_t_inf EXCEPT ![i + 1] = v]
                  /\ new_param' = [new_param EXCEPT !.t_inf_ref = "new_t_inf"]
                  /\ ll_work' = new_loglike
          /\ hist' = Append(hist, Proposal(i + 1, new_t_inf[i + 1], v, old_loglike,
                                           new_loglike, u, ~rejects(p, u)))
          /\ evals' = evals \o
               <<Evaluation(i + 1, "old", old_loglike_snapshot(param.t_inf, new_t_inf),
                            new_t_inf, 0),
                 Evaluation(i + 1, "new", [new_t_inf EXCEPT ![i + 1] = v],
                            new_t_inf, 0)>>
  /\ param' = caller_param(param, "t_inf", new_t_inf')
  /\ draws' = draws \o draws_of_proposal(i + 1)
  /\ i' = i + 1
  /\ UNCHANGED <<call, pc, sd_mu, ll_param, sampler_calls, param_in>>

\* line 130
cpp_move_t_inf_return ==
  /\ call = "t_inf" /\ pc = "run" /\ i = N
  /\ pc' = "done"
  /\ UNCHANGED <<call, sd_mu, param, ll_param, new_param, new_t_inf, i, ll_work,
                 hist, sampler_calls, param_in, evals, draws>>

\* line 166 false: the iteration does nothing
cpp_move_alpha_skip ==
  /\ call = "alpha" /\ pc = "run" /\ i < N
  /\ ~eligible(param.alpha, param.t_inf, i)
  /\ i' = i + 1
  /\ UNCHANGED <<call, pc, sd_mu, param, ll_param, new_param, new_t_inf, ll_work,
                 hist, sampler_calls, param_in, evals, draws>>

\* lines 166-192, one iteration of the loop for an eligible case
cpp_move_alpha ==
  /\ call = "alpha" /\ pc = "run" /\ i < N
  /\ eligible(param.alpha, param.t_inf, i)
  /\ \E pool \in cpp_pick_possible_ancestor(param.t_inf, sampler_argument(i)) :
       /\ pool # {}
       /\ sampler_calls' = Append(sampler_calls,
                                  [case |-> i + 1, arg |-> sampler_argument(i), pool |-> pool])
       /\ \E cand \in pool, u \in UnifDraws, ll \in LLValues,
             old_loglike2 \in CaseLLValues, new_loglike2 \in CaseLLValues :
            LET old_loglike == ll_param
                same == cand = new_param.alpha[i + 1]
                new_loglike == IF same THEN ll_work ELSE ll
                p_accept2 == p_accept(new_loglike2, old_loglike2)
                p == tested_ratio(p_accept(new_loglike, old_loglike), p_accept2)
            IN /\ (same => ll = ll_work)
               /\ evals' = evals \o
                    <<Evaluation(i + 1, "old",
                                 old_loglike_snapshot(param.alpha, new_param.alpha),
                                 new_param.alpha, 0),
                      Evaluation(i + 1, "old",
                                 old_loglike_snapshot(param.alpha, new_param.alpha),
                                 new_param.alpha, likelihood_argument(i)),
                      Evaluation(i + 1, "new", [new_param.alpha EXCEPT ![i + 1] = cand],
                                 new_param.alpha, 0),
                      Evaluation(i + 1, "new", [new_param.alpha EXCEPT ![i + 1] = cand],
                                 new_param.alpha, likelihood_argument(i))>>
               /\ IF rejects(p, u)
                  THEN /\ new_param' = [new_param EXCEPT !.alpha[i + 1] = param.alpha[i + 1]]
                       /\ ll_work' = ll_work
                  ELSE /\ new_param' = [new_param EXCEPT !.alpha[i + 1] = cand]
                       /\ ll_work' = new_loglike
               /\ hist' = Append(hist, Proposal(i + 1, param.alpha[i + 1], cand, old_loglike,
                                                new_loglike, u, ~rejects(p, u)))
  /\ param' = caller_param(param, "alpha", new_param'.alpha)
  /\ draws' = draws \o draws_of_proposal(i + 1)
  /\ i' = i + 1
  /\ UNCHANGED <<call, pc, sd_mu, ll_param, new_t_inf, param_in>>

\* line 173 when the sampler has nothing to draw from: the call stops
cpp_move_alpha_stop ==
  /\ call = "alpha" /\ pc = "run" /\ i < N
  /\ eligible(param.alpha, param.t_inf, i)
  /\ \E pool \in cpp_pick_possible_ancestor(param.t_inf, sampler_argument(i)) :
       /\ pool = {}
       /\ sampler_calls' = Append(sampler_calls,
                                  [case |-> i + 1, arg |-> sampler_argument(i), pool |-> pool])
  /\ evals' = evals \o
       <<Evaluation(i + 1, "old", old_loglike_snapshot(param.alpha, new_param.alpha),
                    new_param.alpha, 0),
         Evaluation(i + 1, "old", old_loglike_snapshot(param.alpha, new_param.alpha),
                    new_param.alpha, likelihood_argument(i))>>
  /\ pc' = "error"
  /\ UNCHANGED <<call, sd_mu, param, ll_param, new_param, new_t_inf, i, ll_work, hist,
                 param_in, draws>>

\* line 196
cpp_move_alpha_return ==
  /\ call = "alpha" /\ pc = "run" /\ i = N
  /\ pc' = "done"
  /\ UNCHANGED <<call, sd_mu, param, ll_param, new_param, new_t_inf, i, ll_work,
                 hist, sampler_calls, param_in, evals, draws>>

Next ==
  \/ cpp_move_mu
  \/ cpp_move_t_inf
  \/ cpp_move_t_inf_return
  \/ cpp_move_alpha_skip
  \/ cpp_move_alpha
  \/ cpp_move_alpha_stop
  \/ cpp_move_alpha_return

Spec == Init /\ [][Next]_vars

TypeOK == pc \in {"run", "done", "error"}

\* ------------------------------------------------- vocabulary of the claims
Proposals == {hist[k] : k \in 1..Len(hist)}

\* the parameter the called move updates, for case c, in snapshot s
Moved(s, c) ==
  IF call = "mu" THEN s.mu ELSE IF call = "t_inf" THEN s.t_inf[c] ELSE s.alpha[c]

\* the acceptance ratio of proposal r, by its logarithm
Ratio(r) == Sub(r.new, r.old)

\* u <= exp(new_ll - old_ll)
DrawWithinRatio(r) == Leq(r.u, Ratio(r))

\* every non-sentinel ancestor was infected strictly before its descendant
TemporalOrder(alpha, t_inf) ==
  \A c \in DOMAIN alpha :
    alpha[c] # NA_INTEGER => t_inf[alpha[c]] < t_inf[c]

\* some case was infected strictly before case c
HasEarlierCase(c) == \E j \in Cases : param.t_inf[j] < param.t_inf[c]

\* ------------------------------------------------------------------ claims

\* C1: after cpp_move_t_inf, for every case the returned t_inf[i] is the
\* proposed value if u <= exp(new_ll - old_ll) and the input t_inf[i]
\* otherwise, whatever happened to the other cases.  Stated for the runs whose
\* ratios are all numbers (C4 is the claim about the undefined ones).
C1_EachCaseKeepsItsOutcome ==
  (call = "t_inf" /\ pc = "done" /\ \A r \in Proposals : Ratio(r) # NaN)
    => \A r \in Proposals :
         Returned.t_inf[r.case] =
           IF DrawWithinRatio(r) THEN r.prop ELSE param.t_inf[r.case]

\* C2: after cpp_move_alpha every non-sentinel returned ancestor was infected
\* strictly before its case (on an input that satisfies this itself), and no
\* accepted candidate has an infection time >= that of its case.
C2_AncestorsPrecede ==
  (call = "alpha" /\ pc = "done")
    => /\ TemporalOrder(param.alpha, param.t_inf)
            => TemporalOrder(Returned.alpha, Returned.t_inf)
       /\ \A r \in Proposals :
            Returned.alpha[r.case] = r.prop /\ r.prop # r.from
              => param.t_inf[r.prop] < param.t_inf[r.case]

\* C3: cpp_pick_possible_ancestor is never called with an empty pool of
\* candidates.
C3_PoolNeverEmpty ==
  \A k \in 1..Len(sampler_calls) : sampler_calls[k].pool # {}

\* C4: in every move, a proposal whose new log-likelihood is -Inf or NaN, so
\* that the ratio is zero or undefined, is rejected: the returned parameter
\* has its value from before the proposal.
C4_BadLikelihoodRejected ==
  pc = "done"
    => \A r \in Proposals :
         (r.new \in {NegInf, NaN} /\ Ratio(r) \in {NegInf, NaN})
           => Moved(Returned, r.case) = r.from

\* C5: after cpp_move_alpha every returned alpha[i] is the input alpha[i] or
\* another case, infected strictly before case i.
C5_AncestorFromEarlierCases ==
  (call = "alpha" /\ pc = "done")
    => \A c \in Cases :
         \/ Returned.alpha[c] = param.alpha[c]
         \/ /\ Returned.alpha[c] \in Cases \ {c}
            /\ param.t_inf[Returned.alpha[c]] < param.t_inf[c]

\* C6: after cpp_move_alpha, for every case a candidate was drawn for, the
\* returned alpha[i] is the candidate if u <= exp(new_ll - old_ll) and the
\* input alpha[i] otherwise.
C6_AlphaFollowsDraw ==
  (call = "alpha" /\ pc = "done")
    => \A r \in Proposals :
         Returned.alpha[r.case] =
           IF DrawWithinRatio(r) THEN r.prop ELSE param.alpha[r.case]

\* C7: in cpp_move_alpha a case whose input ancestor is NA, or that no case
\* precedes, keeps its alpha, and nothing is evaluated, sampled or drawn for
\* it.
C7_IneligibleUntouched ==
  call = "alpha"
    => \A c \in Cases :
         (param.alpha[c] = NA_INTEGER \/ ~HasEarlierCase(c))
           => /\ Returned.alpha[c] = param.alpha[c]
              /\ \A r \in Proposals : r.case # c
              /\ \A k \in 1..Len(sampler_calls) : sampler_calls[k].case # c

\* a sweep of cpp_move_alpha that returned, with a proposal made for one case
\* and a case that has an ancestor and that no case precedes left alone
C7_Witness ==
  /\ call = "alpha" /\ pc = "done" /\ Len(hist) > 0
  /\ \E c \in Cases : param.alpha[c] # NA_INTEGER /\ ~HasEarlierCase(c)
  /\ \E c \in Cases : param.alpha[c] = NA_INTEGER /\ HasEarlierCase(c)

C9_HigherAlwaysAccepted ==
  (pc = "done" /\ \A r \in Proposals : Less(r.old, r.new))
    => /\ \A r \in Proposals : Moved(Returned, r.case) = r.prop
       /\ call = "t_inf" => \A c \in Cases : \E r \in Proposals : r.case = c
       /\ call = "alpha" =>
            \A c \in Cases :
              eligible(param.alpha, param.t_inf, c - 1)
                => \E r \in Proposals : r.case = c
       /\ call = "mu" => Len(hist) = 1

\* a sweep of infection times over several cases, every candidate scored
\* higher and one draw of 1, that returned
C9_Witness ==
  /\ pc = "done" /\ call = "t_inf" /\ Len(hist) > 1
  /\ \A r \in Proposals : Less(r.old, r.new)
  /\ \E r \in Proposals : r.u = Fin(0)

\* C10: cpp_move_mu returns mu + perturbation if u <= exp(new_ll - old_ll)
\* and the input mu otherwise, unclamped; with sd_mu = 0 it returns the input
\* mu.
C10_MuFollowsDraw ==
  (call = "mu" /\ pc = "done")
    => /\ \A r \in Proposals :
            Returned.mu = IF DrawWithinRatio(r) THEN r.prop ELSE param.mu
       /\ sd_mu = 0 => Returned.mu = param.mu

\* C11: after one sweep of cpp_move_t_inf every returned t_inf[i] is the
\* input t_inf[i] - 1, the input t_inf[i] or the input t_inf[i] + 1, and no
\* case is proposed a time more than once.
C11_TimesMoveByAtMostOne ==
  call = "t_inf"
    => /\ \A c \in Cases :
            Returned.t_inf[c] - param.t_inf[c] \in {0 - 1, 0, 1}
       /\ \A k, l \in 1..Len(hist) : hist[k].case = hist[l].case => k = l
       /\ \A r \in Proposals : r.prop - param.t_inf[r.case] \in {0 - 1, 1}

\* a sweep over several cases that returned one time lowered, one raised and
\* one as it was
C11_Witness ==
  /\ call = "t_inf" /\ pc = "done"
  /\ \E a, b, c \in Cases :
       /\ Returned.t_inf[a] = param.t_inf[a] - 1
       /\ Returned.t_inf[b] = param.t_inf[b] + 1
       /\ Returned.t_inf[c] = param.t_inf[c]
       /\ \E r \in Proposals : r.case = c

\* ------------------------------------------------- vocabulary, continued
Evaluations == {evals[k] : k \in 1..Len(evals)}

\* the cases the guard of line 166 lets through
EligibleCases == {c \in Cases : eligible(param.alpha, param.t_inf, c - 1)}

\* the cases a proposal was made for
ProposedCases == {hist[k].case : k \in 1..Len(hist)}

\* C12: in cpp_move_t_inf the old log-likelihood of case i is computed on the
\* snapshot the sweep works on, with every time accepted for the cases before
\* i, and the new one on a snapshot that differs from it in case i only.
C12_TimingOldOnWorkingSnapshot ==
  call = "t_inf"
    => \A e \in Evaluations :
         /\ e.which = "old" => e.on = e.work
         /\ e.which = "new" => \A c \in Cases \ {e.case} : e.on[c] = e.work[c]

\* C13: in cpp_move_alpha the two snapshots of the ratio of case i differ in
\* the ancestor of case i only: the old one is the snapshot the sweep works
\* on, with every ancestor accepted before, the new one that snapshot with
\* the candidate.
C13_AncestryRatioDiffersInOneCase ==
  call = "alpha"
    => \A e, f \in Evaluations :
         (e.case = f.case /\ e.which = "old" /\ f.which = "new")
           => /\ e.on = e.work
              /\ \A c \in Cases \ {e.case} : e.on[c] = f.on[c]

\* C14: in every iteration of cpp_move_alpha the case named to the sampler is
\* the case the guard tested, the case the likelihood is restricted to and
\* the case whose alpha is written, on the scale 1..N.
C14_SamplerNamesTheCase ==
  /\ \A k \in 1..Len(sampler_calls) : sampler_calls[k].arg = sampler_calls[k].case
  /\ \A e \in Evaluations : e.restricted # 0 => e.restricted = e.case

\* C15: the draws come in pairs, a proposal draw and then the acceptance draw
\* of the same case, case after case: one pair for cpp_move_mu, one per case
\* for cpp_move_t_inf (2N draws), one per eligible case and none for the
\* others for cpp_move_alpha, by the time the call ends.
C15_DrawsInFixedOrder ==
  /\ Len(draws) = 2 * Len(hist)
  /\ \A k \in 1..Len(hist) :
       /\ draws[2 * k - 1] = [kind |-> "proposal", case |-> hist[k].case]
       /\ draws[2 * k] = [kind |-> "acceptance", case |-> hist[k].case]
       /\ k > 1 => draws[2 * k - 2].case < draws[2 * k - 1].case
  /\ call = "alpha" => \A k \in 1..Len(draws) : draws[k].case \in EligibleCases
  /\ pc \in {"done", "error"}
       => /\ call = "mu" => Len(draws) = 2
          /\ call = "t_inf" => Len(draws) = 2 * N
          /\ call = "alpha" => {draws[k].case : k \in 1..Len(draws)} = EligibleCases

\* C16: a sweep visits the cases in ascending order, makes one proposal per
\* case (cpp_move_t_inf) or per eligible case (cpp_move_alpha), none twice,
\* and returns a snapshot after the last case.
C16_SweepVisitsOnceAndReturns ==
  call \in {"t_inf", "alpha"}
    => /\ pc # "error"
       /\ \A k, l \in 1..Len(hist) : k < l => hist[k].case < hist[l].case
       /\ \A r \in Proposals : r.case <= i
       /\ pc = "done"
            => /\ i = N
               /\ call = "t_inf" => ProposedCases = Cases
               /\ call = "alpha" => ProposedCases = EligibleCases

\* C17: in cpp_move_alpha the returned ancestor of a case is decided by the
\* draws and the whole-population log-likelihoods alone: it is the value the
\* test on their ratio gives, whatever the log-likelihoods of the case's own
\* term are.
C17_DecidedByWholePopulation ==
  call = "alpha"
    => \A r \in Proposals :
         Returned.alpha[r.case] =
           IF Less(Ratio(r), r.u) THEN r.from ELSE r.prop

\* a sweep of cpp_move_alpha that returned after it turned down a new ancestor
C17_Witness ==
  /\ call = "alpha" /\ pc = "done"
  /\ \E r \in Proposals : r.prop # r.from /\ Less(Ratio(r), r.u)

\* C18: a move leaves the caller's snapshot as it was, and returns the other
\* two parameters as they came in.
C18_OnlyOwnParameterChanges ==
  /\ param = param_in
  /\ pc = "done"
       => /\ call # "mu" => Returned.mu = param_in.mu
          /\ call # "t_inf" => Returned.t_inf = param_in.t_inf
          /\ call # "alpha" => Returned.alpha = param_in.alpha

\* a sweep of cpp_move_t_inf that returned times that break the order of an
\* ancestry the input respected
C18_Witness ==
  /\ call = "t_inf" /\ pc = "done"
  /\ TemporalOrder(param_in.alpha, param_in.t_inf)
  /\ ~TemporalOrder(Returned.alpha, Returned.t_inf)

====
